---- MODULE Spec2Model ----
(***************************************************************************)
(* Model of the arXiv frontend: the ingestion client (fetch_arxiv.py), the *)
(* tagging service (tags_helper.py) and the citation export of the web     *)
(* application (app.py), over the five relational tables papers, authors,  *)
(* paper_authors, tags and paper_tags.                                     *)
(***************************************************************************)
EXTENDS Integers, Sequences, FiniteSets, TLC

\* ------------------------------------------------------------------------
\* Bounds of the model
\* ------------------------------------------------------------------------
MaxBatch == 2      \* records the source yields in one batch run
MaxAuthors == 2    \* authors listed by one source record

ArxivIds == {"2401.00001v1", "2401.00002v1"}
Titles == {"Schur functions"}
Names == {"Ann Berg", "Bo Chu"}

\* ------------------------------------------------------------------------
\* Source records (arxiv.Result).  malformed: extracting the metadata
\* raises before any statement is executed; badAuthor = k > 0: the
\* statement that inserts the k-th author raises.
\* ------------------------------------------------------------------------
AuthorLists == UNION {[1..n -> Names] : n \in 0..MaxAuthors}

Records ==
  {[arxiv_id |-> a, title |-> t, authors |-> as, malformed |-> m, badAuthor |-> b] :
      a \in ArxivIds, t \in Titles, as \in AuthorLists, m \in BOOLEAN, b \in 0..MaxAuthors}

SourceRecords ==
  {r \in Records : /\ r.badAuthor <= Len(r.authors)
                   /\ r.malformed => (r.badAuthor = 0 /\ r.authors = <<>> /\ r.title = CHOOSE t \in Titles : TRUE)}

NoRec == [arxiv_id |-> "", title |-> "", authors |-> <<>>, malformed |-> FALSE, badAuthor |-> 0]

Raises(rec) == rec.malformed \/ rec.badAuthor > 0

\* ------------------------------------------------------------------------
\* The database: five tables, each a set of rows
\* ------------------------------------------------------------------------
EmptyDB == [papers |-> {}, authors |-> {}, paper_authors |-> {}, tags |-> {}, paper_tags |-> {}]

Max(S) == CHOOSE x \in S : \A y \in S : y <= x

\* AUTO_INCREMENT: the id given to the next inserted row
NewId(rows) == IF rows = {} THEN 1 ELSE Max({r.id : r \in rows}) + 1

\* unique key of paper_authors: one link per (paper, author)
PaperAuthorsKey(l) == <<l.paper_id, l.author_id>>

\* unique key of paper_tags: one link per (paper, tag)
PaperTagsKey(l) == <<l.paper_id, l.tag_id>>

\* SELECT id FROM papers WHERE arxiv_id = %s
SelectPaper(db, arxiv_id) == {p \in db.papers : p.arxiv_id = arxiv_id}

\* ON DUPLICATE KEY UPDATE without id=LAST_INSERT_ID(id): for a name that
\* exists cursor.lastrowid is 0
InsertAuthor_noLastInsertId(db, name) ==
  LET found == {a \in db.authors : a.name = name}
  IN IF found # {}
     THEN [db |-> db, lastrowid |-> 0]
     ELSE LET id == NewId(db.authors)
          IN [db |-> [db EXCEPT !.authors = @ \cup {[id |-> id, name |-> name]}],
              lastrowid |-> id]

\* a plain INSERT INTO authors: a new row for every listed name
InsertAuthor_alwaysInserts(db, name) ==
  LET id == NewId(db.authors)
  IN [db |-> [db EXCEPT !.authors = @ \cup {[id |-> id, name |-> name]}], lastrowid |-> id]

\* INSERT INTO authors (name) ... ON DUPLICATE KEY UPDATE id=LAST_INSERT_ID(id)
\* gives the database after the statement and cursor.lastrowid
InsertAuthor(db, name) ==
  LET found == {a \in db.authors : a.name = name}
  IN IF found # {}
     THEN [db |-> db, lastrowid |-> (CHOOSE a \in found : TRUE).id]
     ELSE LET id == NewId(db.authors)
          IN [db |-> [db EXCEPT !.authors = @ \cup {[id |-> id, name |-> name]}],
              lastrowid |-> id]

\* INSERT IGNORE INTO paper_authors (paper_id, author_id, author_order)
InsertIgnoreLink(db, paper_id, author_id, order) ==
  LET l == [paper_id |-> paper_id, author_id |-> author_id, author_order |-> order]
  IN IF \E x \in db.paper_authors : PaperAuthorsKey(x) = PaperAuthorsKey(l)
     THEN db
     ELSE [db EXCEPT !.paper_authors = @ \cup {l}]

\* the author loop of insert_or_update_paper, from the author at index order
RECURSIVE HandleAuthors(_, _, _, _)
HandleAuthors(db, paper_id, rec, order) ==
  IF order > Len(rec.authors) THEN [db |-> db, ok |-> TRUE]
  ELSE IF order = rec.badAuthor THEN [db |-> db, ok |-> FALSE]
  ELSE LET ins == InsertAuthor(db, rec.authors[order])
       IN HandleAuthors(InsertIgnoreLink(ins.db, paper_id, ins.lastrowid, order),
                        paper_id, rec, order + 1)

\* the update branch with DELETE FROM paper_authors lacking its WHERE clause
UpdatePaper_deletesAllLinks(db, paper_id, rec) ==
  [db EXCEPT !.papers = {IF p.id = paper_id THEN [p EXCEPT !.title = rec.title] ELSE p : p \in @},
             !.paper_authors = {}]

\* the update branch without the DELETE FROM paper_authors
UpdatePaper_keepsLinks(db, paper_id, rec) ==
  [db EXCEPT !.papers = {IF p.id = paper_id THEN [p EXCEPT !.title = rec.title] ELSE p : p \in @}]

\* UPDATE papers SET ... WHERE id; DELETE FROM paper_authors WHERE paper_id
UpdatePaper(db, paper_id, rec) ==
  [db EXCEPT !.papers = {IF p.id = paper_id THEN [p EXCEPT !.title = rec.title] ELSE p : p \in @},
             !.paper_authors = {l \in @ : l.paper_id # paper_id}]

\* INSERT INTO papers (...)
InsertPaper(db, paper_id, rec) ==
  [db EXCEPT !.papers = @ \cup {[id |-> paper_id, arxiv_id |-> rec.arxiv_id, title |-> rec.title]}]

\* insert_or_update_paper: the cursor's view after the call, and whether it
\* returned (ok) or raised
insert_or_update_paper(db, rec) ==
  IF rec.malformed THEN [db |-> db, ok |-> FALSE]
  ELSE LET result == SelectPaper(db, rec.arxiv_id)
       IN IF result # {}
          THEN LET paper_id == (CHOOSE p \in result : TRUE).id
               IN HandleAuthors(UpdatePaper(db, paper_id, rec), paper_id, rec, 1)
          ELSE LET paper_id == NewId(db.papers)
               IN HandleAuthors(InsertPaper(db, paper_id, rec), paper_id, rec, 1)

\* ------------------------------------------------------------------------
\* Tagging service (tags_helper.py)
\* ------------------------------------------------------------------------
TagNames == {"schur"}
TagTypes == {"personal", "msc"}

\* SELECT id FROM tags WHERE name = %s AND tag_type = %s
SelectTag(db, tag_name, tag_type) ==
  {t \in db.tags : t.name = tag_name /\ t.tag_type = tag_type}

\* get_or_create_tag without the lookup
get_or_create_tag_alwaysCreates(db, tag_name, tag_type, description) ==
  LET id == NewId(db.tags)
  IN [db |-> [db EXCEPT !.tags = @ \cup {[id |-> id, name |-> tag_name,
                                          tag_type |-> tag_type,
                                          description |-> description]}],
      tag_id |-> id]

\* get_or_create_tag: the connection's view after the call and the tag id
get_or_create_tag(db, tag_name, tag_type, description) ==
  LET result == SelectTag(db, tag_name, tag_type)
  IN IF result # {}
     THEN [db |-> db, tag_id |-> (CHOOSE t \in result : TRUE).id]
     ELSE LET id == NewId(db.tags)
          IN [db |-> [db EXCEPT !.tags = @ \cup {[id |-> id, name |-> tag_name,
                                                  tag_type |-> tag_type,
                                                  description |-> description]}],
              tag_id |-> id]

\* INSERT IGNORE INTO paper_tags (paper_id, tag_id)
InsertIgnoreTagLink(db, paper_id, tag_id) ==
  LET l == [paper_id |-> paper_id, tag_id |-> tag_id]
  IN IF \E x \in db.paper_tags : PaperTagsKey(x) = PaperTagsKey(l)
     THEN db
     ELSE [db EXCEPT !.paper_tags = @ \cup {l}]

\* add_tag_to_paper resolving and committing the tag before it looks the
\* paper up
add_tag_to_paper_tagBeforeLookup(db, arxiv_id, tag_name, tag_type, description, dbError) ==
  IF dbError THEN [db |-> db, ret |-> "False"]
  ELSE LET tag == get_or_create_tag(db, tag_name, tag_type, description)
           result == SelectPaper(db, arxiv_id)
       IN IF result = {} THEN [db |-> tag.db, ret |-> "False"]
          ELSE [db |-> InsertIgnoreTagLink(tag.db, (CHOOSE p \in result : TRUE).id, tag.tag_id),
                ret |-> "True"]

\* add_tag_to_paper on a connected cursor: the committed database after the
\* call and the value returned.  dbError: a statement inside the try raises,
\* the handler rolls back and returns False.
add_tag_to_paper(db, arxiv_id, tag_name, tag_type, description, dbError) ==
  IF dbError THEN [db |-> db, ret |-> "False"]
  ELSE LET result == SelectPaper(db, arxiv_id)
       IN IF result = {} THEN [db |-> db, ret |-> "False"]
          ELSE LET paper_id == (CHOOSE p \in result : TRUE).id
                   tag == get_or_create_tag(db, tag_name, tag_type, description)
               IN [db |-> InsertIgnoreTagLink(tag.db, paper_id, tag.tag_id), ret |-> "True"]

\* SELECT p.id, t.id FROM papers p, tags t WHERE p.arxiv_id = %s AND
\* t.name = %s AND t.tag_type = %s
SelectPaperAndTag(db, arxiv_id, tag_name, tag_type) ==
  SelectPaper(db, arxiv_id) \X SelectTag(db, tag_name, tag_type)

\* remove_tag_from_paper on a connected cursor: the committed database after
\* the call and the value returned
remove_tag_from_paper(db, arxiv_id, tag_name, tag_type, dbError) ==
  IF dbError THEN [db |-> db, ret |-> "False"]
  ELSE LET result == SelectPaperAndTag(db, arxiv_id, tag_name, tag_type)
       IN IF result = {} THEN [db |-> db, ret |-> "False"]
          ELSE LET row == CHOOSE r \in result : TRUE
                   paper_id == row[1].id
                   tag_id == row[2].id
               IN [db |-> [db EXCEPT !.paper_tags =
                              {l \in @ : ~(l.paper_id = paper_id /\ l.tag_id = tag_id)}],
                   ret |-> "True"]

\* ------------------------------------------------------------------------
\* Citation export (app.py).  Strings the export transforms are sequences
\* of one-character strings.
\* ------------------------------------------------------------------------
MaxTitleLen == 3   \* length of the generated titles

Upper == {"A", "B", "C", "D", "E", "F", "G", "H", "I", "J", "K", "L", "M",
          "N", "O", "P", "Q", "R", "S", "T", "U", "V", "W", "X", "Y", "Z"}
Lower == {"a", "b", "c", "d", "e", "f", "g", "h", "i", "j", "k", "l", "m",
          "n", "o", "p", "q", "r", "s", "t", "u", "v", "w", "x", "y", "z"}
Digits == {"0", "1", "2", "3", "4", "5", "6", "7", "8", "9"}

\* the last index of the run of capitals that starts at index i
RECURSIVE UpperRunEnd(_, _)
UpperRunEnd(s, i) ==
  IF i < Len(s) /\ s[i + 1] \in Upper THEN UpperRunEnd(s, i + 1) ELSE i

\* re.sub(r'[A-Z]{2,}', protect_match, title), from index i
RECURSIVE ProtectRuns(_, _)
ProtectRuns(s, i) ==
  IF i > Len(s) THEN <<>>
  ELSE LET e == IF s[i] \in Upper THEN UpperRunEnd(s, i) ELSE i
       IN IF e > i
          THEN <<"{">> \o SubSeq(s, i, e) \o <<"}">> \o ProtectRuns(s, e + 1)
          ELSE <<s[i]>> \o ProtectRuns(s, i + 1)

\* re.sub(r'(?<=[before])[A-Z]', protect_match, s), from index i
RECURSIVE ProtectAfter(_, _, _)
ProtectAfter(s, before, i) ==
  IF i > Len(s) THEN <<>>
  ELSE IF s[i] \in Upper /\ i > 1 /\ s[i - 1] \in before
       THEN <<"{", s[i], "}">> \o ProtectAfter(s, before, i + 1)
       ELSE <<s[i]>> \o ProtectAfter(s, before, i + 1)

\* the three passes with the capitals after a lowercase letter protected first
protect_capitals_for_bibtex_midwordFirst(title) ==
  LET midword == ProtectAfter(title, Lower, 1)
      acronyms == ProtectRuns(midword, 1)
  IN ProtectAfter(acronyms, {"-", "/"}, 1)

protect_capitals_for_bibtex(title) ==
  LET acronyms == ProtectRuns(title, 1)
      midword == ProtectAfter(acronyms, Lower, 1)
  IN ProtectAfter(midword, {"-", "/"}, 1)

\* s.split(c)[0]: the part of s before the first c, s itself if there is none
RECURSIVE SplitFirst(_, _, _)
SplitFirst(s, c, i) ==
  IF i > Len(s) THEN s
  ELSE IF s[i] = c THEN SubSeq(s, 1, i - 1)
  ELSE SplitFirst(s, c, i + 1)

\* the clean arXiv ID of bibtex
clean_arxiv_id(arxiv_id) ==
  IF \E i \in 1..Len(arxiv_id) : arxiv_id[i] = "v" THEN SplitFirst(arxiv_id, "v", 1) ELSE arxiv_id

IsSpace(c) == c \in {" "}

IsAlnum(c) == c \in Upper \cup Lower \cup Digits

\* first_author.split()[-1]: the last whitespace-delimited token, <<>> if
\* the name has none (the index then raises)
RECURSIVE LastToken(_)
LastToken(name) ==
  IF name = <<>> THEN <<>>
  ELSE IF IsSpace(name[Len(name)]) THEN LastToken(SubSeq(name, 1, Len(name) - 1))
  ELSE LET starts == {i \in 1..Len(name) : \A j \in i..Len(name) : ~IsSpace(name[j])}
       IN SubSeq(name, CHOOSE i \in starts : \A j \in starts : i <= j, Len(name))

\* ''.join(c for c in last_name if c.isalnum())
RECURSIVE OnlyAlnum(_)
OnlyAlnum(s) ==
  IF s = <<>> THEN <<>>
  ELSE IF IsAlnum(s[1]) THEN <<s[1]>> \o OnlyAlnum(Tail(s))
  ELSE OnlyAlnum(Tail(s))

\* the decimal numeral of a natural number, as an f-string renders it
RECURSIVE FormatInt(_)
FormatInt(n) ==
  LET digit == <<"0", "1", "2", "3", "4", "5", "6", "7", "8", "9">>[(n % 10) + 1]
  IN IF n < 10 THEN <<digit>> ELSE FormatInt(n \div 10) \o <<digit>>

\* the BibTeX key with the punctuation of the last name kept
bibtex_key_keepsPunctuation(authors, year) ==
  IF authors # <<>>
  THEN LastToken(authors[1]) \o FormatInt(year) \o <<"x">>
  ELSE <<"a", "r", "x", "i", "v">> \o FormatInt(year) \o <<"x">>

\* the BibTeX key: f"{last_name}{year}x", f"arxiv{year}x" without authors
bibtex_key(authors, year) ==
  IF authors # <<>>
  THEN OnlyAlnum(LastToken(authors[1])) \o FormatInt(year) \o <<"x">>
  ELSE <<"a", "r", "x", "i", "v">> \o FormatInt(year) \o <<"x">>

NoResp == [status |-> 0]

\* bibtex: the fields of the generated entry for a paper row and its authors;
\* a first author whose name has no token raises (status 500)
bibtex(paper) ==
  IF paper.authors # <<>> /\ LastToken(paper.authors[1]) = <<>>
  THEN [status |-> 500]
  ELSE [status |-> 200,
        key |-> bibtex_key(paper.authors, paper.year),
        Author |-> IF paper.authors # <<>> THEN paper.authors ELSE <<"Unknown">>,
        Title |-> protect_capitals_for_bibtex(paper.title),
        Year |-> paper.year,
        Eprint |-> clean_arxiv_id(paper.arxiv_id),
        url |-> <<"https://arxiv.org/abs/">> \o clean_arxiv_id(paper.arxiv_id),
        journalref |-> paper.journal_ref,
        doi |-> paper.doi]

\* ------------------------------------------------------------------------
\* State
\* ------------------------------------------------------------------------
VARIABLES
  committed,   \* the database as committed
  txn,         \* the view of the ingestion connection (its open transaction)
  pc,          \* ingestion process: "idle" (none), "batch" (in the loop), "exited"
  mode,        \* mode of the last ingestion run: "recent", "backfill", "single"
  count,       \* count of fetch_recent_papers / fetch_date_range
  errors,      \* errors of fetch_recent_papers / fetch_date_range
  exitCode,    \* exit status of the last ingestion process, -1 while running
  fetched,     \* number of records the source iterator has yielded in this run
  raised,      \* number of those records whose upsert raised
  batchStart,  \* the committed database when the run connected
  clean,       \* batchStart with only the non-raising records of the run upserted
  expected,    \* per external ID, what the run's last record carrying it upserts
  outcome,     \* how the last run ended: "none", "committed", "rolledback", "notfound"
  lastRec,     \* the record last passed to insert_or_update_paper
  repeat,      \* lastRec was passed twice in a row
  pre,         \* the connection's view just before lastRec was passed
  lastTag,     \* the last call of the tagging service, with the value it returned
  prevTag,     \* the call of the tagging service before that
  preTag,      \* the committed database just before the last tagging call
  bibPaper,    \* the paper row, with its authors, a citation export request finds
  bibResp,     \* the response to that request
  webReq,      \* the last request a handler of the web application served
  webResp,     \* the response to it
  conn,        \* the connection that handler acquired: "none", "open", "closed"
  cliArgs,     \* the command line of an invocation of the ingestion client
  cliExit      \* the exit status of that invocation, -1 before it ends

vars == <<committed, txn, pc, mode, count, errors, exitCode, fetched, raised, batchStart, clean,
          expected, outcome, lastRec, repeat, pre, lastTag, prevTag, preTag,
          bibPaper, bibResp, webReq, webResp, conn, cliArgs, cliExit>>

bibVars == <<bibPaper, bibResp>>

webVars == <<webReq, webResp, conn>>

cliVars == <<cliArgs, cliExit>>

tagVars == <<lastTag, prevTag, preTag>>

ingestVars == <<pc, mode, count, errors, exitCode, fetched, raised, batchStart, clean,
                expected, outcome, lastRec, repeat, pre>>

NoTag == [op |-> "none", arxiv_id |-> "", tag_name |-> "", tag_type |-> "",
          dbError |-> FALSE, ret |-> "none"]

NoExp == [state |-> "none", title |-> "", authors |-> <<>>]

NoReq == [handler |-> "none", arg |-> <<>>, page |-> 0]

NoWebResp == [status |-> 0, rows |-> <<>>, total |-> 0, total_pages |-> 0]

NoArgs == <<>>

\* get_paper_authors without the ordering: the (name, ordinal) pairs of a paper
NamedLinks(db, arxiv_id) ==
  {<<x[1].name, x[2].author_order>> :
     x \in {y \in db.authors \X db.paper_authors :
              /\ y[1].id = y[2].author_id
              /\ \E p \in SelectPaper(db, arxiv_id) : p.id = y[2].paper_id}}

\* no ingestion process and no tagging call yet, on database db
InitOn(db) ==
  /\ committed = db
  /\ txn = db
  /\ pc = "idle"
  /\ mode = "none"
  /\ count = 0
  /\ errors = 0
  /\ exitCode = -1
  /\ fetched = 0
  /\ raised = 0
  /\ batchStart = db
  /\ clean = db
  /\ expected = [a \in ArxivIds |-> NoExp]
  /\ outcome = "none"
  /\ lastRec = NoRec
  /\ repeat = FALSE
  /\ pre = db
  /\ lastTag = NoTag
  /\ prevTag = NoTag
  /\ preTag = db
  /\ webReq = NoReq
  /\ webResp = NoWebResp
  /\ conn = "none"

NoPaper == [arxiv_id |-> <<>>, title |-> <<>>, authors |-> <<>>, year |-> 0,
            journal_ref |-> "", doi |-> ""]

Init ==
  /\ InitOn(EmptyDB)
  /\ bibPaper = NoPaper
  /\ bibResp = NoResp
  /\ cliArgs = NoArgs
  /\ cliExit = -1

\* ------------------------------------------------------------------------
\* Ingestion: fetch_recent_papers / fetch_date_range
\* ------------------------------------------------------------------------

\* what the record is expected to leave behind, known only if it does not raise
ExpectationOf(rec) ==
  IF Raises(rec) THEN [state |-> "unknown", title |-> "", authors |-> <<>>]
  ELSE [state |-> "known", title |-> rec.title, authors |-> rec.authors]

\* conn = get_db_connection(); cursor = conn.cursor(); count = 0; errors = 0
BatchStart(m) ==
  /\ pc = "idle"
  /\ UNCHANGED <<tagVars, bibVars, webVars, cliVars>>
  /\ pc' = "batch"
  /\ mode' = m
  /\ txn' = committed
  /\ batchStart' = committed
  /\ clean' = committed
  /\ count' = 0
  /\ errors' = 0
  /\ fetched' = 0
  /\ raised' = 0
  /\ exitCode' = -1
  /\ expected' = [a \in ArxivIds |-> NoExp]
  /\ outcome' = "none"
  /\ lastRec' = NoRec
  /\ repeat' = FALSE
  /\ pre' = committed
  /\ UNCHANGED committed

\* the loop with conn.rollback() in the inner handler: a raising record
\* undoes the run's earlier upserts and is not counted
ProcessRecord_rollsBackOnError(rec) ==
  /\ pc = "batch"
  /\ UNCHANGED <<tagVars, bibVars, webVars, cliVars>>
  /\ fetched < MaxBatch
  /\ LET r == insert_or_update_paper(txn, rec)
     IN /\ txn' = IF r.ok THEN r.db ELSE committed
        /\ count' = IF r.ok THEN count + 1 ELSE count
        /\ errors' = errors
        /\ clean' = IF r.ok THEN insert_or_update_paper(clean, rec).db ELSE clean
  /\ fetched' = fetched + 1
  /\ raised' = IF Raises(rec) THEN raised + 1 ELSE raised
  /\ expected' = [expected EXCEPT ![rec.arxiv_id] = ExpectationOf(rec)]
  /\ lastRec' = rec
  /\ repeat' = (rec = lastRec)
  /\ pre' = txn
  /\ UNCHANGED <<committed, pc, mode, exitCode, batchStart, outcome>>

\* one iteration of the loop: the iterator yields rec, the upsert runs
\* inside try/except
ProcessRecord(rec) ==
  /\ pc = "batch"
  /\ UNCHANGED <<tagVars, bibVars, webVars, cliVars>>
  /\ fetched < MaxBatch
  /\ LET r == insert_or_update_paper(txn, rec)
     IN /\ txn' = r.db
        /\ count' = IF r.ok THEN count + 1 ELSE count
        /\ errors' = IF r.ok THEN errors ELSE errors + 1
        /\ clean' = IF r.ok THEN insert_or_update_paper(clean, rec).db ELSE clean
  /\ fetched' = fetched + 1
  /\ raised' = IF Raises(rec) THEN raised + 1 ELSE raised
  /\ expected' = [expected EXCEPT ![rec.arxiv_id] = ExpectationOf(rec)]
  /\ lastRec' = rec
  /\ repeat' = (rec = lastRec)
  /\ pre' = txn
  /\ UNCHANGED <<committed, pc, mode, exitCode, batchStart, outcome>>

\* the iterator is exhausted: conn.commit(), the function returns and main
\* ends with status 0
BatchCommit ==
  /\ pc = "batch"
  /\ UNCHANGED <<tagVars, bibVars, webVars, cliVars>>
  /\ committed' = txn
  /\ pc' = "exited"
  /\ exitCode' = 0
  /\ outcome' = "committed"
  /\ UNCHANGED <<txn, mode, count, errors, fetched, raised, batchStart, clean, expected,
                 lastRec, repeat, pre>>

\* the outer handler without conn.rollback(): the connection's work is kept
BatchFatal_keepsWrites ==
  /\ pc = "batch"
  /\ UNCHANGED <<tagVars, bibVars, webVars, cliVars>>
  /\ committed' = txn
  /\ pc' = "exited"
  /\ exitCode' = 1
  /\ outcome' = "rolledback"
  /\ clean' = committed
  /\ expected' = [a \in ArxivIds |-> NoExp]
  /\ lastRec' = NoRec
  /\ repeat' = FALSE
  /\ pre' = committed
  /\ UNCHANGED <<txn, mode, count, errors, fetched, raised, batchStart>>

\* the iterator raises: conn.rollback(), raise; main exits with status 1
BatchFatal ==
  /\ pc = "batch"
  /\ UNCHANGED <<tagVars, bibVars, webVars, cliVars>>
  /\ txn' = committed
  /\ pc' = "exited"
  /\ exitCode' = 1
  /\ outcome' = "rolledback"
  /\ clean' = committed
  /\ expected' = [a \in ArxivIds |-> NoExp]
  /\ lastRec' = NoRec
  /\ repeat' = FALSE
  /\ pre' = committed
  /\ UNCHANGED <<committed, mode, count, errors, fetched, raised, batchStart>>

\* fetch_by_arxiv_id: res is what next(client.results(search)) does
FetchById(res, rec) ==
  /\ pc = "idle"
  /\ UNCHANGED <<tagVars, bibVars, webVars, cliVars>>
  /\ pc' = "exited"
  /\ mode' = "single"
  /\ batchStart' = committed
  /\ UNCHANGED <<count, errors>>
  /\ IF res = "found"
     THEN LET r == insert_or_update_paper(committed, rec)
          IN /\ committed' = IF r.ok THEN r.db ELSE committed
             /\ txn' = IF r.ok THEN r.db ELSE committed
             /\ clean' = IF r.ok THEN r.db ELSE committed
             /\ exitCode' = IF r.ok THEN 0 ELSE 1
             /\ outcome' = IF r.ok THEN "committed" ELSE "rolledback"
             /\ fetched' = 1
             /\ raised' = IF r.ok THEN 0 ELSE 1
             /\ expected' = [a \in ArxivIds |-> IF a = rec.arxiv_id THEN ExpectationOf(rec) ELSE NoExp]
             /\ lastRec' = IF r.ok THEN rec ELSE NoRec
             /\ repeat' = FALSE
             /\ pre' = committed
     ELSE /\ UNCHANGED <<committed, lastRec, repeat, pre>>
          /\ txn' = committed
          /\ clean' = committed
          /\ fetched' = 0
          /\ raised' = 0
          /\ expected' = [a \in ArxivIds |-> NoExp]
          /\ exitCode' = IF res = "notfound" THEN 0 ELSE 1
          /\ outcome' = IF res = "notfound" THEN "notfound" ELSE "rolledback"

\* the ingestion process is gone; its locals go with it
ProcessExit ==
  /\ pc = "exited"
  /\ UNCHANGED <<tagVars, bibVars, webVars, cliVars>>
  /\ pc' = "idle"
  /\ mode' = "none"
  /\ count' = 0
  /\ errors' = 0
  /\ exitCode' = -1
  /\ fetched' = 0
  /\ raised' = 0
  /\ batchStart' = committed
  /\ clean' = committed
  /\ expected' = [a \in ArxivIds |-> NoExp]
  /\ outcome' = "none"
  /\ lastRec' = NoRec
  /\ repeat' = FALSE
  /\ pre' = committed
  /\ UNCHANGED <<committed, txn>>

NextIngest ==
  \/ \E m \in {"recent", "backfill"} : BatchStart(m)
  \/ \E rec \in SourceRecords : ProcessRecord(rec)
  \/ BatchCommit
  \/ BatchFatal
  \/ \E rec \in SourceRecords : FetchById("found", rec)
  \/ \E res \in {"notfound", "error"} : FetchById(res, NoRec)
  \/ ProcessExit

SpecIngest == Init /\ [][NextIngest]_vars

\* ------------------------------------------------------------------------
\* Tagging calls.  The service is a separate process with its own
\* connection; no ingestion run is open while it is called.
\* ------------------------------------------------------------------------
AddTag(arxiv_id, tag_name, tag_type, dbError) ==
  /\ pc = "idle"
  /\ LET r == add_tag_to_paper(committed, arxiv_id, tag_name, tag_type, "", dbError)
     IN /\ committed' = r.db
        /\ txn' = r.db
        /\ lastTag' = [op |-> "add", arxiv_id |-> arxiv_id, tag_name |-> tag_name,
                       tag_type |-> tag_type, dbError |-> dbError, ret |-> r.ret]
  /\ prevTag' = lastTag
  /\ preTag' = committed
  /\ UNCHANGED <<ingestVars, bibVars, webVars, cliVars>>

RemoveTag(arxiv_id, tag_name, tag_type, dbError) ==
  /\ pc = "idle"
  /\ LET r == remove_tag_from_paper(committed, arxiv_id, tag_name, tag_type, dbError)
     IN /\ committed' = r.db
        /\ txn' = r.db
        /\ lastTag' = [op |-> "remove", arxiv_id |-> arxiv_id, tag_name |-> tag_name,
                       tag_type |-> tag_type, dbError |-> dbError, ret |-> r.ret]
  /\ prevTag' = lastTag
  /\ preTag' = committed
  /\ UNCHANGED <<ingestVars, bibVars, webVars, cliVars>>

NextTag ==
  \/ \E a \in ArxivIds, n \in TagNames, t \in TagTypes, e \in BOOLEAN : AddTag(a, n, t, e)
  \/ \E a \in ArxivIds, n \in TagNames, t \in TagTypes, e \in BOOLEAN : RemoveTag(a, n, t, e)

\* databases the ingestion client leaves behind: empty, one paper, two papers
SeedRecord(arxiv_id, authors) ==
  [arxiv_id |-> arxiv_id, title |-> CHOOSE t \in Titles : TRUE, authors |-> authors,
   malformed |-> FALSE, badAuthor |-> 0]

SeedOne == insert_or_update_paper(EmptyDB, SeedRecord("2401.00001v1", <<"Ann Berg">>)).db

SeedTwo == insert_or_update_paper(SeedOne, SeedRecord("2401.00002v1", <<"Bo Chu">>)).db

InitTag ==
  /\ \E db \in {EmptyDB, SeedOne, SeedTwo} : InitOn(db)
  /\ bibPaper = NoPaper
  /\ bibResp = NoResp
  /\ cliArgs = NoArgs
  /\ cliExit = -1

SpecTag == InitTag /\ [][NextTag]_vars


\* ------------------------------------------------------------------------
\* Citation export requests
\* ------------------------------------------------------------------------
TitleAlphabet == {"A", "B", "a", " ", "-", "/"}

RNABinding == <<"R", "N", "A", "-", "B", "i", "n", "d", "i", "n", "g", " ",
                "P", "r", "o", "t", "e", "i", "n", "s">>

McKayTitle == <<"M", "c", "K", "a", "y", " ", "A", "B", "-", "C">>

BibTitles == {RNABinding, McKayTitle} \cup UNION {[1..n -> TitleAlphabet] : n \in 0..MaxTitleLen}

NewStyleId == <<"2", "4", "0", "1", ".", "1", "2", "3", "4", "5">>
OldStyleId == <<"m", "a", "t", "h", "/", "0", "5", "0", "1", "2", "3", "4">>
SolvIntId == <<"s", "o", "l", "v", "-", "i", "n", "t", "/", "9", "9", "0", "1", "0", "0", "1">>

BibIds ==
  {b \o v : b \in {NewStyleId, OldStyleId, SolvIntId},
            v \in {<<>>, <<"v", "1">>, <<"v", "2">>, <<"v", "1", "2">>}}

JaneDoe == <<"J", "a", "n", "e", " ", "A", ".", " ", "D", "o", "e">>
OBrien == <<"P", "a", "t", " ", "O", "'", "B", "r", "i", "e", "n">>

BibAuthorLists == {<<>>, <<JaneDoe>>, <<OBrien, JaneDoe>>}

BibPaper(arxiv_id, title, authors, year, journal_ref, doi) ==
  [arxiv_id |-> arxiv_id, title |-> title, authors |-> authors, year |-> year,
   journal_ref |-> journal_ref, doi |-> doi]

BibPapers ==
  {BibPaper(NewStyleId \o <<"v", "1">>, t, <<JaneDoe>>, 2024, "", "") : t \in BibTitles}
  \cup {BibPaper(i, RNABinding, as, y, j, d) :
          i \in BibIds, as \in BibAuthorLists, y \in {1999, 2024},
          j \in {"", "J. Comb. 1 (2024)"}, d \in {"", "10.1000/1"}}

\* GET /api/bibtex/<arxiv_id> for a paper that exists
Bibtex ==
  /\ bibResp = NoResp
  /\ bibResp' = bibtex(bibPaper)
  /\ UNCHANGED <<committed, txn, ingestVars, tagVars, bibPaper, webVars, cliVars>>

InitBib ==
  /\ InitOn(EmptyDB)
  /\ bibPaper \in BibPapers
  /\ bibResp = NoResp
  /\ cliArgs = NoArgs
  /\ cliExit = -1

SpecBib == InitBib /\ [][Bibtex]_vars

\* ------------------------------------------------------------------------
\* Web application (app.py): the request handlers.  Titles, abstracts,
\* names, external IDs, queries and dates of a request are sequences of
\* one-character strings.
\* ------------------------------------------------------------------------
MaxPapers == 45   \* Paper rows of the databases the handlers read
MaxPage == 4      \* page numbers requested

per_page == 20

SchurTitle == <<"S", "c", "h", "u", "r">>
KnsAbstract == <<"o", "n", " ", "R", "N", "A">>

\* the external ID of the i-th paper of a database the handlers read
WebArxivId(i) == <<"2", "4", "0", "1", ".">> \o FormatInt(10000 + i)

\* the i-th Paper row: three dates, two titles, an abstract on every fourth
WebPaper(i) ==
  [id |-> i, arxiv_id |-> WebArxivId(i),
   title |-> IF i % 3 = 0 THEN RNABinding ELSE SchurTitle,
   abstract |-> IF i % 4 = 0 THEN KnsAbstract ELSE <<>>,
   published_date |-> <<2024, 1, 1 + (i % 3)>>]

\* the links of the i-th paper: one author, a second one on every fourth
WebLinks(i) ==
  {[paper_id |-> i, author_id |-> 1 + (i % 2), author_order |-> 1]}
  \cup (IF i % 4 = 0 THEN {[paper_id |-> i, author_id |-> 2, author_order |-> 2]} ELSE {})

\* a database of n papers as the ingestion client leaves it
WebDB(n) ==
  [papers |-> {WebPaper(i) : i \in 1..n},
   authors |-> {a \in {[id |-> 1, name |-> JaneDoe], [id |-> 2, name |-> OBrien]} :
                   \E i \in 1..n : \E l \in WebLinks(i) : l.author_id = a.id},
   paper_authors |-> UNION {WebLinks(i) : i \in 1..n},
   tags |-> {},
   paper_tags |-> {}]

\* the day number by which dates are compared
DateNum(date) == date[1] * 10000 + date[2] * 100 + date[3]

\* ORDER BY published_date DESC, id DESC
RECURSIVE OrderByDateId(_)
OrderByDateId(rows) ==
  IF rows = {} THEN <<>>
  ELSE LET first == CHOOSE p \in rows : \A q \in rows :
                        \/ DateNum(p.published_date) > DateNum(q.published_date)
                        \/ /\ DateNum(p.published_date) = DateNum(q.published_date)
                           /\ p.id >= q.id
       IN <<first>> \o OrderByDateId(rows \ {first})

\* ORDER BY id DESC
RECURSIVE OrderById(_)
OrderById(rows) ==
  IF rows = {} THEN <<>>
  ELSE LET first == CHOOSE p \in rows : \A q \in rows : p.id >= q.id
       IN <<first>> \o OrderById(rows \ {first})

\* LIMIT limit OFFSET offset without the bound of the limit
LimitOffset_unlimited(rows, limit, offset) ==
  SubSeq(rows, offset + 1, Len(rows))

\* LIMIT limit OFFSET offset on the ordered rows
LimitOffset(rows, limit, offset) ==
  SubSeq(rows, offset + 1, IF offset + limit < Len(rows) THEN offset + limit ELSE Len(rows))

\* the ids of a sequence of rows
Ids(rows) == [k \in 1..Len(rows) |-> rows[k].id]

\* value LIKE %query%: query occurs in value (the queries of the model and
\* the values they occur in agree in case)
Like(value, query) ==
  \E i \in 1..(Len(value) - Len(query) + 1) : SubSeq(value, i, i + Len(query) - 1) = query

\* str.strip()
RECURSIVE Strip(_)
Strip(s) ==
  IF s = <<>> THEN s
  ELSE IF IsSpace(s[1]) THEN Strip(Tail(s))
  ELSE IF IsSpace(s[Len(s)]) THEN Strip(SubSeq(s, 1, Len(s) - 1))
  ELSE s

\* index: the response and the state of the connection when the handler ends
index(db, page) ==
  LET offset == (page - 1) * per_page
      total == Cardinality(db.papers)
      papers == LimitOffset(OrderByDateId(db.papers), per_page, offset)
      total_pages == (total + per_page - 1) \div per_page
  IN [resp |-> [status |-> 200, rows |-> Ids(papers), total |-> total,
                total_pages |-> total_pages],
      conn |-> "closed"]

\* the papers a search matches: title, abstract or the name of an author
SearchRows(db, query) ==
  {p \in db.papers :
     \/ Like(p.title, query)
     \/ Like(p.abstract, query)
     \/ \E pa \in db.paper_authors, a \in db.authors :
          pa.paper_id = p.id /\ pa.author_id = a.id /\ Like(a.name, query)}

\* search: an empty query is answered before a connection is acquired
search(db, q, page) ==
  LET query == Strip(q)
      offset == (page - 1) * per_page
  IN IF query = <<>>
     THEN [resp |-> [status |-> 200, rows |-> <<>>, total |-> 0, total_pages |-> 0],
           conn |-> "none"]
     ELSE LET total == Cardinality(SearchRows(db, query))
              papers == LimitOffset(OrderByDateId(SearchRows(db, query)), per_page, offset)
              total_pages == (total + per_page - 1) \div per_page
          IN [resp |-> [status |-> 200, rows |-> Ids(papers), total |-> total,
                        total_pages |-> total_pages],
              conn |-> "closed"]

\* papers p JOIN paper_authors pa ON p.id = pa.paper_id WHERE pa.author_id:
\* one row per link, one link per paper and author
AuthorRows(db, author_id) ==
  {p \in db.papers : \E pa \in db.paper_authors : pa.paper_id = p.id /\ pa.author_id = author_id}

\* author_papers: abort(404) leaves the handler before the connection is closed
author_papers(db, author_name, page) ==
  LET offset == (page - 1) * per_page
      found == {a \in db.authors : a.name = author_name}
  IN IF found = {}
     THEN [resp |-> [status |-> 404, rows |-> <<>>, total |-> 0, total_pages |-> 0],
           conn |-> "open"]
     ELSE LET author == CHOOSE a \in found : TRUE
              total == Cardinality(AuthorRows(db, author.id))
              papers == LimitOffset(OrderByDateId(AuthorRows(db, author.id)), per_page, offset)
              total_pages == (total + per_page - 1) \div per_page
          IN [resp |-> [status |-> 200, rows |-> Ids(papers), total |-> total,
                        total_pages |-> total_pages],
              conn |-> "closed"]

\* paper_detail, and bibtex up to the lookup of the paper: abort(404) leaves
\* the handler before the connection is closed
paper_detail(db, arxiv_id) ==
  LET found == SelectPaper(db, arxiv_id)
  IN IF found = {}
     THEN [resp |-> [status |-> 404, rows |-> <<>>, total |-> 0, total_pages |-> 0],
           conn |-> "open"]
     ELSE [resp |-> [status |-> 200, rows |-> <<(CHOOSE p \in found : TRUE).id>>,
                     total |-> 0, total_pages |-> 0],
           conn |-> "closed"]

\* the number a sequence of digits writes
RECURSIVE ParseInt(_)
ParseInt(s) ==
  IF s = <<>> THEN 0
  ELSE 10 * ParseInt(SubSeq(s, 1, Len(s) - 1))
       + (CHOOSE v \in 0..9 : FormatInt(v) = <<s[Len(s)]>>)

\* %m and %d: one digit from 1, or two digits; %d also a blank and a digit
\* from 1.  The value of the field, 0 if it is not of that form.
FieldValue(f, blankAllowed) ==
  IF Len(f) = 1 /\ f[1] \in Digits \ {"0"} THEN ParseInt(f)
  ELSE IF Len(f) = 2 /\ f[1] \in Digits /\ f[2] \in Digits THEN ParseInt(f)
  ELSE IF blankAllowed /\ Len(f) = 2 /\ f[1] = " " /\ f[2] \in Digits \ {"0"} THEN ParseInt(Tail(f))
  ELSE 0

DaysInMonth(y, m) ==
  IF m = 2 THEN (IF y % 4 = 0 /\ (y % 100 # 0 \/ y % 400 = 0) THEN 29 ELSE 28)
  ELSE IF m \in {4, 6, 9, 11} THEN 30
  ELSE 31

\* datetime.strptime(date_str, '%Y-%m-%d').date(): the date, or ok = FALSE
\* where it raises ValueError
strptime(date_str) ==
  LET dashes == {i \in 1..Len(date_str) : date_str[i] = "-"}
      failed == [ok |-> FALSE, date |-> <<0, 0, 0>>]
  IN IF Cardinality(dashes) # 2 THEN failed
     ELSE LET i == CHOOSE k \in dashes : \A l \in dashes : k <= l
              j == CHOOSE k \in dashes : \A l \in dashes : k >= l
              Y == SubSeq(date_str, 1, i - 1)
              y == IF Len(Y) = 4 /\ \A k \in 1..4 : Y[k] \in Digits THEN ParseInt(Y) ELSE 0
              m == FieldValue(SubSeq(date_str, i + 1, j - 1), FALSE)
              d == FieldValue(SubSeq(date_str, j + 1, Len(date_str)), TRUE)
          IN IF y >= 1 /\ m \in 1..12 /\ d \in 1..DaysInMonth(y, m)
             THEN [ok |-> TRUE, date |-> <<y, m, d>>]
             ELSE failed

\* papers_by_date: a malformed date is answered with 404 before a connection
\* is acquired; the papers of a date are not paginated
papers_by_date(db, date_str) ==
  LET parsed == strptime(date_str)
  IN IF ~parsed.ok
     THEN [resp |-> [status |-> 404, rows |-> <<>>, total |-> 0, total_pages |-> 0],
           conn |-> "none"]
     ELSE LET papers == OrderById({p \in db.papers : p.published_date = parsed.date})
          IN [resp |-> [status |-> 200, rows |-> Ids(papers), total |-> 0, total_pages |-> 0],
              conn |-> "closed"]

\* ------------------------------------------------------------------------
\* Requests to the web application, one at a time
\* ------------------------------------------------------------------------
WebPages == 1..MaxPage

Queries == {<<>>, <<" ">>, <<"D", "o", "e">>, <<" ", "R", "N", "A">>, <<"B", "r", "i", "e", "n", " ">>, <<"z", "z", "z">>}

NoOne == <<"N", "o", " ", "O", "n", "e">>

AuthorNames == {JaneDoe, OBrien, NoOne}

RequestIds == {WebArxivId(1), WebArxivId(MaxPapers), NewStyleId}

DateWithPapers == <<"2", "0", "2", "4", "-", "0", "1", "-", "0", "2">>
DateUnpadded == <<"2", "0", "2", "4", "-", "1", "-", "2">>
DateWithoutPapers == <<"2", "0", "2", "4", "-", "0", "1", "-", "1", "6">>
LeapDay == <<"2", "0", "2", "4", "-", "0", "2", "-", "2", "9">>
NoLeapDay == <<"2", "0", "2", "3", "-", "0", "2", "-", "2", "9">>
FebruaryThirty == <<"2", "0", "2", "4", "-", "0", "2", "-", "3", "0">>
MonthThirteen == <<"2", "0", "2", "4", "-", "1", "3", "-", "0", "1">>
DateTrailing == <<"2", "0", "2", "4", "-", "0", "1", "-", "0", "2", "x">>
Yesterday == <<"y", "e", "s", "t", "e", "r", "d", "a", "y">>
EmptyDate == <<>>

DateStrs == {DateWithPapers,
             DateUnpadded,
             DateWithoutPapers,
             LeapDay,
             NoLeapDay,
             FebruaryThirty,
             MonthThirteen,
             DateTrailing,
             Yesterday,
             EmptyDate}

\* GET /?page=
Index(page) ==
  /\ webReq = NoReq
  /\ webReq' = [handler |-> "index", arg |-> <<>>, page |-> page]
  /\ LET r == index(committed, page)
     IN /\ webResp' = r.resp
        /\ conn' = r.conn
  /\ UNCHANGED <<committed, txn, ingestVars, tagVars, bibVars, cliVars>>

\* GET /search?q=&page=
Search(q, page) ==
  /\ webReq = NoReq
  /\ webReq' = [handler |-> "search", arg |-> q, page |-> page]
  /\ LET r == search(committed, q, page)
     IN /\ webResp' = r.resp
        /\ conn' = r.conn
  /\ UNCHANGED <<committed, txn, ingestVars, tagVars, bibVars, cliVars>>

\* GET /author/<author_name>?page=
AuthorPapers(author_name, page) ==
  /\ webReq = NoReq
  /\ webReq' = [handler |-> "author_papers", arg |-> author_name, page |-> page]
  /\ LET r == author_papers(committed, author_name, page)
     IN /\ webResp' = r.resp
        /\ conn' = r.conn
  /\ UNCHANGED <<committed, txn, ingestVars, tagVars, bibVars, cliVars>>

\* GET /paper/<arxiv_id>
PaperDetail(arxiv_id) ==
  /\ webReq = NoReq
  /\ webReq' = [handler |-> "paper_detail", arg |-> arxiv_id, page |-> 0]
  /\ LET r == paper_detail(committed, arxiv_id)
     IN /\ webResp' = r.resp
        /\ conn' = r.conn
  /\ UNCHANGED <<committed, txn, ingestVars, tagVars, bibVars, cliVars>>

\* GET /api/bibtex/<arxiv_id>, up to the point where the connection is closed
BibtexLookup(arxiv_id) ==
  /\ webReq = NoReq
  /\ webReq' = [handler |-> "bibtex", arg |-> arxiv_id, page |-> 0]
  /\ LET r == paper_detail(committed, arxiv_id)
     IN /\ webResp' = r.resp
        /\ conn' = r.conn
  /\ UNCHANGED <<committed, txn, ingestVars, tagVars, bibVars, cliVars>>

\* GET /date/<date_str>
PapersByDate(date_str) ==
  /\ webReq = NoReq
  /\ webReq' = [handler |-> "papers_by_date", arg |-> date_str, page |-> 0]
  /\ LET r == papers_by_date(committed, date_str)
     IN /\ webResp' = r.resp
        /\ conn' = r.conn
  /\ UNCHANGED <<committed, txn, ingestVars, tagVars, bibVars, cliVars>>

\* the response is sent; the worker takes the next request
RequestEnd ==
  /\ webReq # NoReq
  /\ webReq' = NoReq
  /\ webResp' = NoWebResp
  /\ conn' = "none"
  /\ UNCHANGED <<committed, txn, ingestVars, tagVars, bibVars, cliVars>>

NextWeb ==
  \/ \E page \in WebPages : Index(page)
  \/ \E q \in Queries, page \in WebPages : Search(q, page)
  \/ \E author_name \in AuthorNames, page \in WebPages : AuthorPapers(author_name, page)
  \/ \E arxiv_id \in RequestIds : PaperDetail(arxiv_id)
  \/ \E arxiv_id \in RequestIds : BibtexLookup(arxiv_id)
  \/ \E date_str \in DateStrs : PapersByDate(date_str)
  \/ RequestEnd

InitWeb ==
  /\ \E n \in 0..MaxPapers : InitOn(WebDB(n))
  /\ bibPaper = NoPaper
  /\ bibResp = NoResp
  /\ cliArgs = NoArgs
  /\ cliExit = -1

SpecWeb == InitWeb /\ [][NextWeb]_vars

\* ------------------------------------------------------------------------
\* Command line of the ingestion client (fetch_arxiv.py, main)
\* ------------------------------------------------------------------------
\* an option given with a value, and an option not given (None)
Arg(value) == [given |-> TRUE, value |-> value]

Absent == [given |-> FALSE, value |-> <<>>]

\* invocations: the options given, and what the selected fetch function
\* meets once it runs: "ok", "notfound" (the source has no such paper),
\* "raise" (the source or the database fails)
CliArgs ==
  [recent : BOOLEAN,
   backfill : BOOLEAN,
   arxiv_id : {Absent, Arg(<<>>), Arg(NewStyleId)},
   days : {Absent, Arg(<<"2">>), Arg(<<"x">>)},
   start_date : {Absent, Arg(<<>>), Arg(DateWithPapers), Arg(Yesterday)},
   end_date : {Absent, Arg(<<>>), Arg(DateWithPapers), Arg(Yesterday)},
   run : {"ok", "notfound", "raise"}]

\* type=int accepts the value: digits, with or without a sign
IntLiteral(s) ==
  LET body == IF s # <<>> /\ s[1] \in {"+", "-"} THEN Tail(s) ELSE s
  IN body # <<>> /\ \A k \in 1..Len(body) : body[k] \in Digits

\* the truth value of an option's value: None and '' are false
Truthy(opt) == opt.given /\ opt.value # <<>>

\* parser.parse_args(): the status parser.error exits with, -1 if it returns
parse_args(args) ==
  LET modes == (IF args.recent THEN 1 ELSE 0) + (IF args.backfill THEN 1 ELSE 0)
               + (IF args.arxiv_id.given THEN 1 ELSE 0)
  IN IF modes # 1 THEN 2
     ELSE IF args.days.given /\ ~IntLiteral(args.days.value) THEN 2
     ELSE -1

\* main: the exit status of the process
main(args) ==
  IF parse_args(args) # -1 THEN parse_args(args)
  ELSE IF args.recent THEN (IF args.run = "raise" THEN 1 ELSE 0)
  ELSE IF args.backfill
       THEN IF ~Truthy(args.start_date) \/ ~Truthy(args.end_date) THEN 1
            ELSE IF ~strptime(args.start_date.value).ok \/ ~strptime(args.end_date.value).ok THEN 1
            ELSE IF args.run = "raise" THEN 1 ELSE 0
  ELSE IF Truthy(args.arxiv_id) THEN (IF args.run = "raise" THEN 1 ELSE 0)
  ELSE 0

\* python fetch_arxiv.py <options>, from start to exit
Main ==
  /\ cliExit = -1
  /\ cliExit' = main(cliArgs)
  /\ UNCHANGED <<committed, txn, ingestVars, tagVars, bibVars, webVars, cliArgs>>

InitCli ==
  /\ InitOn(EmptyDB)
  /\ bibPaper = NoPaper
  /\ bibResp = NoResp
  /\ cliArgs \in CliArgs
  /\ cliExit = -1

SpecCli == InitCli /\ [][Main]_vars

\* ------------------------------------------------------------------------
\* Single-ID ingestion and tagging calls, in any order, on a database that
\* holds another paper
\* ------------------------------------------------------------------------
LifeSeed == insert_or_update_paper(EmptyDB, SeedRecord("2401.00002v1", <<"Bo Chu">>)).db

LifeRecords == {r \in SourceRecords : r.arxiv_id = "2401.00001v1"}

NextLife ==
  \/ \E rec \in LifeRecords : FetchById("found", rec)
  \/ \E res \in {"notfound", "error"} : FetchById(res, NoRec)
  \/ ProcessExit
  \/ \E a \in ArxivIds, n \in TagNames, e \in BOOLEAN : AddTag(a, n, "personal", e)
  \/ \E a \in ArxivIds, n \in TagNames, e \in BOOLEAN : RemoveTag(a, n, "personal", e)

InitLife ==
  /\ InitOn(LifeSeed)
  /\ bibPaper = NoPaper
  /\ bibResp = NoResp
  /\ cliArgs = NoArgs
  /\ cliExit = -1

SpecLife == InitLife /\ [][NextLife]_vars

\* ------------------------------------------------------------------------
\* Properties of the ingestion client
\* ------------------------------------------------------------------------
BatchModes == {"recent", "backfill"}

\* the (name, ordinal) pairs of an author list, one per index
AllLinks(authors) == {<<authors[i], i>> : i \in 1..Len(authors)}

\* the (name, ordinal) pairs of an author list, one per name, at the index
\* where the name occurs first
FirstLinks(authors) ==
  {<<authors[i], i>> : i \in {j \in 1..Len(authors) : \A k \in 1..(j - 1) : authors[k] # authors[j]}}

NoDuplicateAuthors(db) == \A a, b \in db.authors : a.name = b.name => a = b

NoDuplicateLinks(db) ==
  \A l, m \in db.paper_authors : (l.paper_id = m.paper_id /\ l.author_id = m.author_id) => l = m

LinksOfOthers(db, arxiv_id) ==
  {l \in db.paper_authors : \A p \in SelectPaper(db, arxiv_id) : l.paper_id # p.id}

\* lastRec was upserted and did not raise
Upserted == lastRec # NoRec /\ ~Raises(lastRec)

\* C1: upserting the same record twice in a row leaves the database as it
\* was after the first upsert: one Paper row with the external ID, the same
\* links, no duplicate link and no duplicate Author row.
C1_UpsertIdempotent ==
  (Upserted /\ repeat) =>
     /\ txn = pre
     /\ Cardinality(SelectPaper(txn, lastRec.arxiv_id)) = 1
     /\ NoDuplicateAuthors(txn)
     /\ NoDuplicateLinks(txn)

C1_Witness ==
  /\ Upserted /\ repeat
  /\ Len(lastRec.authors) = 2
  /\ Cardinality(txn.papers) = 2

C4_FailedRecordLeavesNoTrace ==
  (pc = "exited" /\ mode \in BatchModes /\ outcome = "committed") => committed = clean

\* C5: when the source iterator fails during a batch run, the committed
\* database is what it was when the run started and the process exits with
\* status 1.
C5_FatalErrorRollsBackBatch ==
  (pc = "exited" /\ mode \in BatchModes /\ outcome = "rolledback") =>
     /\ committed = batchStart
     /\ exitCode = 1

C5_Witness ==
  /\ pc = "exited" /\ mode \in BatchModes /\ outcome = "rolledback"
  /\ count >= 1
  /\ committed.papers = {}

\* ------------------------------------------------------------------------
\* Properties of the tagging service
\* ------------------------------------------------------------------------
\* a Paper-Tag link between the paper with the external ID and a tag (name, type)
TagLinks(db, arxiv_id, tag_name, tag_type) ==
  {l \in db.paper_tags :
     /\ \E p \in SelectPaper(db, arxiv_id) : p.id = l.paper_id
     /\ \E t \in SelectTag(db, tag_name, tag_type) : t.id = l.tag_id}

LastTagLinks(db) == TagLinks(db, lastTag.arxiv_id, lastTag.tag_name, lastTag.tag_type)

\* C6: a detach for which no Paper-Tag link exists returns False and leaves
\* the database as it was.
C6_DetachWithoutLinkFails ==
  (lastTag.op = "remove" /\ LastTagLinks(preTag) = {}) =>
     /\ lastTag.ret = "False"
     /\ committed = preTag

\* C7: two attaches in a row with the same arguments on an existing paper
\* both return True and leave one Tag row for (name, type) and one link
\* between the paper and that tag.
C7_AttachIdempotent ==
  (/\ lastTag.op = "add" /\ ~lastTag.dbError
   /\ [prevTag EXCEPT !.ret = "none"] = [lastTag EXCEPT !.ret = "none"]
   /\ SelectPaper(preTag, lastTag.arxiv_id) # {}) =>
     /\ prevTag.ret = "True"
     /\ lastTag.ret = "True"
     /\ Cardinality(SelectTag(committed, lastTag.tag_name, lastTag.tag_type)) = 1
     /\ Cardinality(LastTagLinks(committed)) = 1
     /\ committed = preTag

C7_Witness ==
  /\ lastTag.op = "add" /\ ~lastTag.dbError
  /\ [prevTag EXCEPT !.ret = "none"] = [lastTag EXCEPT !.ret = "none"]
  /\ SelectPaper(preTag, lastTag.arxiv_id) # {}
  /\ Cardinality(committed.tags) = 2
  /\ Cardinality(committed.paper_tags) >= 2

\* C8: an attach to an external ID that has no Paper row returns False and
\* creates neither a Tag row nor a Paper-Tag link.
C8_AttachToMissingPaperFails ==
  (lastTag.op = "add" /\ SelectPaper(preTag, lastTag.arxiv_id) = {}) =>
     /\ lastTag.ret = "False"
     /\ committed.tags = preTag.tags
     /\ committed.paper_tags = preTag.paper_tags
     /\ committed = preTag

C8_Witness ==
  /\ lastTag.op = "add" /\ ~lastTag.dbError
  /\ SelectPaper(preTag, lastTag.arxiv_id) = {}
  /\ lastTag.ret = "False"
  /\ committed.papers # {}
  /\ SelectTag(committed, lastTag.tag_name, lastTag.tag_type) = {}

\* ------------------------------------------------------------------------
\* Properties of the citation export
\* ------------------------------------------------------------------------
RNABindingProtected ==
  <<"{", "R", "N", "A", "}", "-", "{", "B", "}", "i", "n", "d", "i", "n", "g", " ",
    "{", "P", "}", "r", "o", "t", "e", "i", "n", "s">>

\* C9: the title RNA-Binding Proteins is exported as
\* {RNA}-{B}inding {P}roteins.
C9_RNABindingExample ==
  (bibResp.status = 200 /\ bibPaper.title = RNABinding) => bibResp.Title = RNABindingProtected

\* the indices of an ID at which a version suffix, 'v' and digits up to the
\* end, starts
VersionStarts(id) ==
  {k \in 2..(Len(id) - 1) : id[k] = "v" /\ \A j \in (k + 1)..Len(id) : id[j] \in Digits}

\* the ID without its version suffix
BaseOf(id) ==
  IF VersionStarts(id) = {} THEN id
  ELSE SubSeq(id, 1, (CHOOSE k \in VersionStarts(id) : TRUE) - 1)

\* C10: the Eprint field and the URL of the exported citation hold the
\* external ID without its version suffix, and an ID without such a suffix
\* unchanged.
C10_VersionSuffixStripped ==
  bibResp.status = 200 =>
     /\ bibResp.Eprint = BaseOf(bibPaper.arxiv_id)
     /\ bibResp.url = <<"https://arxiv.org/abs/">> \o BaseOf(bibPaper.arxiv_id)

\* index i of the title holds a capital
CapitalAt(t, i) == i \in 1..Len(t) /\ t[i] \in Upper

\* the capitals that stand alone after a lowercase letter, a hyphen or a slash
Singles(t) ==
  {i \in 2..Len(t) : /\ CapitalAt(t, i) /\ ~CapitalAt(t, i - 1) /\ ~CapitalAt(t, i + 1)
                     /\ t[i - 1] \in Lower \cup {"-", "/"}}

\* where a brace opens: at a single, and at the first capital of a maximal
\* run of two or more
Opens(t) ==
  Singles(t) \cup {i \in 1..Len(t) : CapitalAt(t, i) /\ ~CapitalAt(t, i - 1) /\ CapitalAt(t, i + 1)}

\* where a brace closes: at a single, and at the last capital of such a run
Closes(t) ==
  Singles(t) \cup {i \in 1..Len(t) : CapitalAt(t, i) /\ CapitalAt(t, i - 1) /\ ~CapitalAt(t, i + 1)}

\* the title from index i on with those braces
RECURSIVE Braced(_, _)
Braced(t, i) ==
  IF i > Len(t) THEN <<>>
  ELSE (IF i \in Opens(t) THEN <<"{">> ELSE <<>>) \o <<t[i]>>
       \o (IF i \in Closes(t) THEN <<"}">> ELSE <<>>) \o Braced(t, i + 1)

Tokens(name) ==
  {t \in (1..Len(name)) \X (1..Len(name)) :
     /\ t[1] <= t[2]
     /\ \A k \in t[1]..t[2] : name[k] # " "
     /\ t[1] = 1 \/ name[t[1] - 1] = " "
     /\ t[2] = Len(name) \/ name[t[2] + 1] = " "}

\* the last token of a name with only its letters and digits
Surname(name) ==
  LET t == CHOOSE t \in Tokens(name) : \A u \in Tokens(name) : u[2] <= t[2]
      alnum(c) == c \in Upper \cup Lower \cup Digits
  IN SelectSeq(SubSeq(name, t[1], t[2]), alnum)

\* C11: the exported key is the last whitespace-delimited token of the first
\* author's name without its non-alphanumeric characters, then the year,
\* then x; for a paper without authors it is arxiv, the year, x.  Jane A.
\* Doe and 2024 give Doe2024x.
C11_CitationKey ==
  bibResp.status = 200 =>
     /\ bibPaper.authors # <<>> =>
           bibResp.key = Surname(bibPaper.authors[1]) \o FormatInt(bibPaper.year) \o <<"x">>
     /\ bibPaper.authors = <<>> =>
           bibResp.key = <<"a", "r", "x", "i", "v">> \o FormatInt(bibPaper.year) \o <<"x">>
     /\ (bibPaper.authors # <<>> /\ bibPaper.authors[1] = JaneDoe /\ bibPaper.year = 2024) =>
           bibResp.key = <<"D", "o", "e", "2", "0", "2", "4", "x">>
     /\ (bibPaper.authors = <<>> /\ bibPaper.year = 1999) =>
           bibResp.key = <<"a", "r", "x", "i", "v", "1", "9", "9", "9", "x">>

C11_Witness ==
  /\ bibResp.status = 200
  /\ bibPaper.authors = <<OBrien, JaneDoe>>
  /\ bibResp.key = <<"O", "B", "r", "i", "e", "n", "1", "9", "9", "9", "x">>

\* ------------------------------------------------------------------------
\* Properties of the web application
\* ------------------------------------------------------------------------
\* a paginated view has answered: list, search with a query, author listing
Paginated ==
  /\ webReq.handler \in {"index", "search", "author_papers"}
  /\ webResp.status = 200
  /\ conn = "closed"

\* the rows the view of the request matches
MatchingRows ==
  IF webReq.handler = "index" THEN committed.papers
  ELSE IF webReq.handler = "search" THEN SearchRows(committed, Strip(webReq.arg))
  ELSE {p \in committed.papers :
          \E pa \in committed.paper_authors, a \in committed.authors :
             pa.paper_id = p.id /\ pa.author_id = a.id /\ a.name = webReq.arg}

\* C12: in the list, search and author views total_pages is the ceiling of
\* the number of matching rows over 20, and page p >= 1 returns
\* min(20, max(0, total - 20 (p - 1))) rows, all of them distinct matching
\* rows; 45 matching rows give 3 pages, and page 3 returns 5 rows.
C12_Pagination ==
  Paginated =>
    LET total == Cardinality(MatchingRows)
        left == total - 20 * (webReq.page - 1)
    IN /\ webResp.total = total
       /\ 20 * webResp.total_pages >= total
       /\ 20 * (webResp.total_pages - 1) < total
       /\ Len(webResp.rows) = (IF left <= 0 THEN 0 ELSE IF left < 20 THEN left ELSE 20)
       /\ Cardinality({webResp.rows[k] : k \in 1..Len(webResp.rows)}) = Len(webResp.rows)
       /\ \A k \in 1..Len(webResp.rows) : \E p \in MatchingRows : p.id = webResp.rows[k]
       /\ total = 45 => webResp.total_pages = 3
       /\ (total = 45 /\ webReq.page = 3) => Len(webResp.rows) = 5

C12_Witness ==
  /\ Paginated
  /\ webReq.handler = "index"
  /\ webReq.page = 3
  /\ webResp.total = 45
  /\ webResp.total_pages = 3
  /\ Len(webResp.rows) = 5

\* C13: a request for the detail page or the citation export of an external
\* ID without Paper row, for the listing of a name without Author row, and
\* for the papers of a date that is malformed or on which no paper was
\* published, is answered with status 404.
C13_UnknownResourceIs404 ==
  /\ (webReq.handler \in {"paper_detail", "bibtex"} /\ SelectPaper(committed, webReq.arg) = {})
        => webResp.status = 404
  /\ (webReq.handler = "author_papers" /\ ~\E a \in committed.authors : a.name = webReq.arg)
        => webResp.status = 404
  /\ (webReq.handler = "papers_by_date" /\ ~strptime(webReq.arg).ok)
        => webResp.status = 404
  /\ (/\ webReq.handler = "papers_by_date"
      /\ strptime(webReq.arg).ok
      /\ ~\E p \in committed.papers : p.published_date = strptime(webReq.arg).date)
        => webResp.status = 404

\* C17: when a handler has answered a request, on the 404 paths as on the
\* others, the connection it acquired has been closed.
C17_ConnectionReleased ==
  webReq # NoReq => conn # "open"

\* ------------------------------------------------------------------------
\* Properties of the author tables
\* ------------------------------------------------------------------------
\* the names a record lists
ListedNames(rec) == {rec.authors[i] : i \in 1..Len(rec.authors)}

\* C14: a name has at most one Author row, in every state of every run; an
\* upsert keeps the Author rows there were, gives every listed name that had
\* no row exactly one, creates no other row, and the paper's link for a
\* listed name references the id of the row of that name.
C14_AuthorIdentity ==
  /\ NoDuplicateAuthors(txn)
  /\ NoDuplicateAuthors(committed)
  /\ Upserted =>
       /\ pre.authors \subseteq txn.authors
       /\ \A n \in ListedNames(lastRec) : Cardinality({a \in txn.authors : a.name = n}) = 1
       /\ {a.name : a \in txn.authors \ pre.authors}
             = {n \in ListedNames(lastRec) : \A a \in pre.authors : a.name # n}
       /\ \A n \in ListedNames(lastRec) :
             \E a \in txn.authors, l \in txn.paper_authors, p \in SelectPaper(txn, lastRec.arxiv_id) :
                a.name = n /\ l.author_id = a.id /\ l.paper_id = p.id
       /\ \A l \in txn.paper_authors : \E a \in txn.authors : a.id = l.author_id

C14_Witness ==
  /\ Upserted
  /\ Cardinality(ListedNames(lastRec)) = 2
  /\ Cardinality(pre.authors) = 1
  /\ Cardinality(txn.authors) = 2
  /\ SelectPaper(pre, lastRec.arxiv_id) = {}
  /\ pre.papers # {}

\* the position values of the links of a paper are pairwise distinct
DistinctOrdinals(db) ==
  \A l, m \in db.paper_authors :
     (l.paper_id = m.paper_id /\ l.author_order = m.author_order) => l = m

\* C15: in the committed database the position values of a paper's links
\* are pairwise distinct; after a run that committed, a paper whose last
\* record in the run was ingested has the link (author i, ordinal i) for
\* every index i of that record's list, also for a name listed twice, and
\* when the run ingested no record every paper has the links it had.
C15_OrdinalsReflectSourceOrder ==
  /\ DistinctOrdinals(committed)
  /\ (pc = "exited" /\ outcome = "committed") =>
       \A a \in ArxivIds :
          expected[a].state = "known" => NamedLinks(committed, a) = AllLinks(expected[a].authors)
  /\ (pc = "exited" /\ outcome = "committed" /\ mode \in BatchModes /\ count = 0) =>
       \A a \in ArxivIds : NamedLinks(committed, a) = NamedLinks(batchStart, a)

\* ------------------------------------------------------------------------
\* Properties of the command line
\* ------------------------------------------------------------------------
ModesGiven ==
  (IF cliArgs.recent THEN 1 ELSE 0) + (IF cliArgs.backfill THEN 1 ELSE 0)
  + (IF cliArgs.arxiv_id.given THEN 1 ELSE 0)

\* backfill without both dates, or with a date that is not YYYY-MM-DD
BadBackfillDates ==
  /\ cliArgs.backfill
  /\ \/ ~cliArgs.start_date.given
     \/ ~cliArgs.end_date.given
     \/ ~strptime(cliArgs.start_date.value).ok
     \/ ~strptime(cliArgs.end_date.value).ok

\* an error of the claim; a failing source or database is met only when
\* there is something to fetch, not with an empty --arxiv-id
FatalOrUsageError ==
  \/ ModesGiven = 0
  \/ ModesGiven >= 2
  \/ cliArgs.days.given /\ ~IntLiteral(cliArgs.days.value)
  \/ BadBackfillDates
  \/ cliArgs.run = "raise" /\ cliArgs.arxiv_id # Arg(<<>>)

\* C16: an invocation of main ends with status 1 when no mode or conflicting
\* modes are given, when an option has a value of the wrong type, when
\* backfill lacks a date or has a malformed one, and when the source or the
\* database fails; with status 0 otherwise; with no other status.
C16_ExitCodes ==
  cliExit # -1 =>
     /\ cliExit \in {0, 1}
     /\ FatalOrUsageError => cliExit = 1
     /\ ~FatalOrUsageError => cliExit = 0

\* ------------------------------------------------------------------------
\* Properties of the life cycle of rows
\* ------------------------------------------------------------------------
\* the rows of each table, by key
Keys(db) ==
  [papers |-> {p.id : p \in db.papers},
   authors |-> {a.id : a \in db.authors},
   paper_authors |-> {PaperAuthorsKey(l) : l \in db.paper_authors},
   tags |-> {t.id : t \in db.tags},
   paper_tags |-> {PaperTagsKey(l) : l \in db.paper_tags}]

\* the step is a tag detach that returned True
DetachStep ==
  /\ lastTag'.op = "remove"
  /\ lastTag'.ret = "True"
  /\ preTag' = committed
  /\ UNCHANGED ingestVars

\* C19 as stated: no step but a tag detach removes a row from any of the
\* five tables.
C19_OnlyDetachRemovesRows ==
  [][DetachStep \/ \A t \in DOMAIN Keys(committed) : Keys(committed)[t] \subseteq Keys(committed')[t]]_vars

\* C19 amended: no step removes a row of papers, authors or tags; only a
\* tag detach removes a Paper-Tag link; and a Paper-Author link is removed
\* only by the ingestion of a record for a paper that exists, which removes
\* links of that paper and of no other.
C19_RowsRemovedByDetachOrReingestion ==
  [][/\ \A t \in {"papers", "authors", "tags"} : Keys(committed)[t] \subseteq Keys(committed')[t]
     /\ DetachStep \/ Keys(committed).paper_tags \subseteq Keys(committed').paper_tags
     /\ \A k \in Keys(committed).paper_authors \ Keys(committed').paper_authors :
          /\ pc' = "exited"
          /\ \E a \in ArxivIds : /\ expected'[a].state # "none"
                                 /\ \E p \in SelectPaper(committed, a) : p.id = k[1]]_vars

C19_Witness ==
  /\ pc = "exited" /\ mode = "single" /\ outcome = "committed"
  /\ ~(Keys(batchStart).paper_authors \subseteq Keys(committed).paper_authors)
  /\ LinksOfOthers(committed, lastRec.arxiv_id) # {}
  /\ committed.paper_tags # {}

====
